---- MODULE Spec2Model ----
(***************************************************************************)
(* dirhash: the recursive directory fingerprint (hash_dir), its cache, the *)
(* command line entry point that persists the cache (cli) and the          *)
(* duplicate finder (getdupes), modelled from src/dirhash/__init__.py.     *)
(*                                                                         *)
(* Bytes.  hashlib cannot be computed here, so the hash is modelled as the *)
(* free collision-free hash of fixed digest width: a hash object is the    *)
(* sequence of bytes fed to it so far, and its digest() is ONE byte, the   *)
(* byte that stands for exactly that input.  A byte is therefore itself a  *)
(* (hereditarily finite) sequence of bytes, and a file may hold the very   *)
(* bytes that are some other object's digest, as on a real disk.           *)
(***************************************************************************)
EXTENDS Integers, Sequences, FiniteSets, TLC

VARIABLES fs, defaults, ucache, last, calls, edits, cachefile, dupes

vars == <<fs, defaults, ucache, last, calls, edits, cachefile, dupes>>

(* ------------------------------ bounds -------------------------------- *)
MaxDepth == 2
MaxEntries == 3
MaxSeqEntries == 2
MaxLen == 2
MaxCalls == 3
MaxEdits == 1

Roots == {"D1", "D2"}
Names == {"a", "b"}

(* ------------------------------ hashlib ------------------------------- *)
\* hashlib.new(algo): a hash object that has been fed nothing.
new == <<>>

\* h.update(data)
update(h, data) == h \o data

\* h.digest(): the digest bytes, of fixed width 1.
digest(h) == <<h>>

\* h.hexdigest(): the digest as a string over the two characters 0 and 1,
\* an injective, prefix-free rendering of the digest byte.
RECURSIVE hexdigest(_), HexFrom(_, _)
HexFrom(h, i) ==
    IF i > Len(h) THEN <<>> ELSE hexdigest(h[i]) \o HexFrom(h, i + 1)

hexdigest(h) == <<0>> \o HexFrom(h, 1) \o <<1>>

\* Python's str < str: lexicographic, a proper prefix is smaller.
RECURSIVE StrLess(_, _)
StrLess(s, t) ==
    IF t = <<>> THEN FALSE
    ELSE IF s = <<>> THEN TRUE
    ELSE IF s[1] # t[1] THEN s[1] < t[1]
    ELSE StrLess(Tail(s), Tail(t))

\* sorted(hs, key=lambda x: x.hexdigest()): ascending and stable.
RECURSIVE InsertSorted(_, _)
InsertSorted(x, hs) ==
    IF hs = <<>> THEN <<x>>
    ELSE IF StrLess(hexdigest(hs[1]), hexdigest(x))
         THEN <<hs[1]>> \o InsertSorted(x, Tail(hs))
         ELSE <<x>> \o hs

\* sorted with the sort left out: the list as it is.
Unsorted(hs) == hs

RECURSIVE sorted(_)
sorted(hs) ==
    IF hs = <<>> THEN <<>> ELSE InsertSorted(hs[1], sorted(Tail(hs)))

\* The file contents of the model: at most MaxLen bytes, each the digest
\* byte of the empty input.
Contents == UNION {[1..n -> {new}] : n \in 0..MaxLen}

ChunkSizes == {1, 2}

\* checksum(fp, chunksize, algo): the file read chunk by chunk.
RECURSIVE ReadChunks(_, _, _)
ReadChunks(h, rest, chunksize) ==
    IF rest = <<>> THEN h
    ELSE LET n == IF Len(rest) < chunksize THEN Len(rest) ELSE chunksize
         IN ReadChunks(update(h, SubSeq(rest, 1, n)),
                       SubSeq(rest, n + 1, Len(rest)), chunksize)

\* checksum with `if chunk` for `while chunk`: the first chunk only.
FirstChunkOnly(data, chunksize) ==
    update(new, SubSeq(data, 1, IF Len(data) < chunksize THEN Len(data)
                                ELSE chunksize))

checksum(data, chunksize) == ReadChunks(new, data, chunksize)

(* --------------------------- the filesystem --------------------------- *)
Paths ==
    {p \in UNION {[1..k -> Roots \cup Names] : k \in 1..(MaxDepth + 1)} :
        /\ p[1] \in Roots
        /\ \A i \in 2..Len(p) : p[i] \in Names}

RootPaths == {<<r>> : r \in Roots}

Absent == [kind |-> "none", sym |-> FALSE, data |-> <<>>]

Parent(p) == SubSeq(p, 1, Len(p) - 1)

\* The enumeration orders scandir may use: the permutations of the names.
Orders == {o \in [1..Cardinality(Names) -> Names] :
              \A i, j \in 1..Cardinality(Names) : i # j => o[i] # o[j]}

\* os.scandir(d): the paths of d's entries, in the order `order`.
RECURSIVE ScanFrom(_, _, _, _)
ScanFrom(F, d, order, i) ==
    IF i > Len(order) THEN <<>>
    ELSE LET x == Append(d, order[i])
         IN (IF x \in DOMAIN F /\ F[x].kind # "none" THEN <<x>> ELSE <<>>)
            \o ScanFrom(F, d, order, i + 1)

scandir(F, d, order) == ScanFrom(F, d, order, 1)

is_symlink(F, x) == F[x].sym
is_file(F, x) == F[x].kind = "file"
is_dir(F, x) == F[x].kind = "dir"

(* ------------------------------ the cache ----------------------------- *)
\* A dict in insertion order: a sequence of [k, v] with distinct keys.
EmptyCache == <<>>

Keys(c) == {c[i].k : i \in 1..Len(c)}

InCache(c, k) == \E i \in 1..Len(c) : c[i].k = k

Get(c, k) == c[CHOOSE i \in 1..Len(c) : c[i].k = k].v

\* cache[k] = v: an existing key keeps its place.
Put(c, k, v) ==
    IF InCache(c, k)
    THEN [i \in 1..Len(c) |-> IF c[i].k = k THEN [k |-> k, v |-> v] ELSE c[i]]
    ELSE Append(c, [k |-> k, v |-> v])

\* The cache never consulted.
NeverCached(cache, x) == FALSE

\* `x in cache`, the test hash_dir makes before it computes a digest.
Cached(cache, x) == InCache(cache, x)

\* The final cache update left out.
NoFinalUpdate(cache, d, h) == cache

\* cache[d] = h, the final cache update of hash_dir.
FinalUpdate(cache, d, h) == Put(cache, d, h)

(* ------------------------------ hash_dir ------------------------------ *)
\* Every entry kept, whatever resolve_symlinks is.
KeptAll(F, d, order, resolve_symlinks) == scandir(F, d, order)

\* The entries hash_dir keeps: a symlink is skipped when resolve_symlinks
\* is False.
Kept(F, d, order, resolve_symlinks) ==
    SelectSeq(scandir(F, d, order),
              LAMBDA x : ~(is_symlink(F, x) /\ resolve_symlinks = FALSE))

Files(F, d, order, rs) ==
    SelectSeq(Kept(F, d, order, rs), LAMBDA x : is_file(F, x))

Subdirs(F, d, order, rs) ==
    SelectSeq(Kept(F, d, order, rs),
              LAMBDA x : ~is_file(F, x) /\ is_dir(F, x))

\* The others never collected: such an entry is passed over in silence.
NoOthers(F, d, order, rs) == <<>>

Others(F, d, order, rs) ==
    SelectSeq(Kept(F, d, order, rs),
              LAMBDA x : ~is_file(F, x) /\ ~is_dir(F, x))

Ev(op, path, h) == [op |-> op, path |-> path, h |-> h]

\* The loop over files: a cached digest is reused, another is computed by
\* checksum and stored.  acc = [hashes, cache, log].
RECURSIVE HashFiles(_, _, _, _, _)
HashFiles(F, files, i, chunksize, acc) ==
    IF i > Len(files) THEN acc
    ELSE LET x == files[i]
         IN IF Cached(acc.cache, x)
            THEN HashFiles(F, files, i + 1, chunksize,
                   [acc EXCEPT !.hashes = Append(@, Get(acc.cache, x))])
            ELSE LET fh == checksum(F[x].data, chunksize)
                 IN HashFiles(F, files, i + 1, chunksize,
                      [hashes |-> Append(acc.hashes, fh),
                       cache |-> Put(acc.cache, x, fh),
                       log |-> acc.log \o <<Ev("checksum", x, fh),
                                            Ev("store", x, fh)>>])

\* Feed the digests, in order, to a hash object.
RECURSIVE UpdateAll(_, _)
UpdateAll(h, hs) ==
    IF hs = <<>> THEN h ELSE UpdateAll(update(h, digest(hs[1])), Tail(hs))

\* hash_dir(d, chunksize, algo, resolve_symlinks, cache) with scandir
\* listing the names of every directory in the order `order`:
\* [ok, h, cache, log].  ok = FALSE is the
\* NotImplementedError; the cache is a dict mutated in place, so what was
\* stored before the error stays stored.
RECURSIVE hash_dir(_, _, _, _, _, _), HashSubdirs(_, _, _, _, _, _, _)
HashSubdirs(F, subdirs, i, chunksize, rs, order, acc) ==
    IF i > Len(subdirs) \/ ~acc.ok THEN acc
    ELSE LET x == subdirs[i]
         IN IF Cached(acc.cache, x)
            THEN HashSubdirs(F, subdirs, i + 1, chunksize, rs, order,
                   [acc EXCEPT !.hashes = Append(@, Get(acc.cache, x))])
            ELSE LET r == hash_dir(F, x, chunksize, rs, order, acc.cache)
                 IN IF ~r.ok
                    THEN [ok |-> FALSE, hashes |-> acc.hashes,
                          cache |-> r.cache, log |-> acc.log \o r.log]
                    ELSE HashSubdirs(F, subdirs, i + 1, chunksize, rs, order,
                           [ok |-> TRUE,
                            hashes |-> Append(acc.hashes, r.h),
                            cache |-> Put(r.cache, x, r.h),
                            log |-> acc.log \o r.log
                                      \o <<Ev("store", x, r.h)>>])

\* All the digests sorted as one list.
SortedTogether(file_hashes, subdir_hashes) ==
    sorted(file_hashes \o subdir_hashes)

\* sorted_file_hashes + sorted_subdir_hashes
Combined(file_hashes, subdir_hashes) ==
    sorted(file_hashes) \o sorted(subdir_hashes)

hash_dir(F, d, chunksize, rs, order, cache) ==
    IF Len(Others(F, d, order, rs)) > 0
    THEN [ok |-> FALSE, h |-> new, cache |-> cache, log |-> <<>>]
    ELSE LET fr == HashFiles(F, Files(F, d, order, rs), 1, chunksize,
                     [hashes |-> <<>>, cache |-> cache, log |-> <<>>])
             sr == HashSubdirs(F, Subdirs(F, d, order, rs), 1, chunksize,
                     rs, order,
                     [ok |-> TRUE, hashes |-> <<>>, cache |-> fr.cache,
                      log |-> fr.log])
         IN IF ~sr.ok
            THEN [ok |-> FALSE, h |-> new, cache |-> sr.cache,
                  log |-> sr.log]
            ELSE LET h == UpdateAll(new, Combined(fr.hashes, sr.hashes))
                 IN [ok |-> TRUE, h |-> h,
                     cache |-> FinalUpdate(sr.cache, d, h),
                     log |-> sr.log \o <<Ev("hash", d, h),
                                         Ev("store", d, h)>>]

(* ------------------------------ getdupes ------------------------------ *)
\* cli's --write-cache: {x: cache[x].hexdigest() for x in cache}
Dump(cache) ==
    [i \in 1..Len(cache) |-> [k |-> cache[i].k, v |-> hexdigest(cache[i].v)]]

\* by_hash: each digest of the table with the paths that carry it, both in
\* the table's order.
RECURSIVE ByHash(_, _, _)
ByHash(table, i, by_hash) ==
    IF i > Len(table) THEN by_hash
    ELSE LET x == table[i].k
             hx == table[i].v
             b0 == IF InCache(by_hash, hx) THEN by_hash
                   ELSE Put(by_hash, hx, <<>>)
         IN ByHash(table, i + 1, Put(b0, hx, Append(Get(b0, hx), x)))

\* `> 0` for `> 1`.
IsNonEmpty(paths) == Len(paths) > 0

IsDupe(paths) == Len(paths) > 1

\* dupes = {x: by_hash[x] for x in by_hash if len(by_hash[x]) > 1}
getdupes(table) ==
    SelectSeq(ByHash(table, 1, <<>>), LAMBDA e : IsDupe(e.v))

(* ------------------------------- state -------------------------------- *)
NoCall ==
    [called |-> FALSE, mode |-> "none", d |-> <<>>, rs |-> TRUE,
     ok |-> FALSE, h |-> new, cacheIn |-> EmptyCache, cache |-> EmptyCache,
     log |-> <<>>, again |-> FALSE, prevh |-> new]

NoFile == [exists |-> FALSE, table |-> <<>>]

NoDupes == [done |-> FALSE, table |-> <<>>, dupes |-> <<>>]

\* The directories of `roots` exist and are empty; nothing has run.
Start(roots) ==
    /\ fs = [p \in Paths |->
               IF p \in {<<r>> : r \in roots}
               THEN [kind |-> "dir", sym |-> FALSE, data |-> <<>>]
               ELSE Absent]
    /\ defaults = EmptyCache
    /\ ucache = EmptyCache
    /\ last = NoCall
    /\ calls = 0
    /\ edits = 0
    /\ cachefile = NoFile
    /\ dupes = NoDupes

Init == Start(Roots)

SeqInit == Start({"D1"})

NEntries(F) == Cardinality({p \in Paths \ RootPaths : F[p].kind # "none"})

\* A place where an entry can be made: free, in an existing directory.
Free(F, p) ==
    /\ p \in Paths \ RootPaths
    /\ F[p].kind = "none"
    /\ F[Parent(p)].kind = "dir"

Under(p, q) == Len(q) >= Len(p) /\ SubSeq(q, 1, Len(p)) = p

\* The filesystem with an entry made at p.
WithEntry(F, p, kind, sym, data) ==
    [F EXCEPT ![p] = [kind |-> kind, sym |-> sym, data |-> data]]

\* The filesystem with the entry at p, and all below it, removed.
Without(F, p) == [q \in Paths |-> IF Under(p, q) THEN Absent ELSE F[q]]

(* ------------------- the environment: the filesystem ------------------ *)
\* Before the first call the tree is built freely; after it, at most
\* maxLate changes are made.
CanEdit(maxLate) == calls = 0 \/ edits < maxLate

Edited(F) ==
    /\ fs' = F
    /\ last' = NoCall
    /\ edits' = IF calls = 0 THEN edits ELSE edits + 1
    /\ UNCHANGED <<defaults, ucache, calls, cachefile, dupes>>

\* A regular file is created.
Creat(maxE, maxLate) ==
    \E p \in Paths, data \in Contents :
        /\ CanEdit(maxLate)
        /\ NEntries(fs) < maxE
        /\ Free(fs, p)
        /\ Edited(WithEntry(fs, p, "file", FALSE, data))

\* A file's content is replaced (through a symlink, the target's).
WriteFile(maxLate) ==
    \E p \in Paths, data \in Contents :
        /\ CanEdit(maxLate)
        /\ fs[p].kind = "file"
        /\ fs[p].data # data
        /\ Edited(WithEntry(fs, p, "file", fs[p].sym, data))

Mkdir(maxE, maxLate) ==
    \E p \in Paths :
        /\ CanEdit(maxLate)
        /\ NEntries(fs) < maxE
        /\ Free(fs, p)
        /\ Edited(WithEntry(fs, p, "dir", FALSE, <<>>))

\* A symbolic link to a file, to a directory, or to nothing (dangling).
Symlink(maxE, maxLate) ==
    \E p \in Paths, kind \in {"file", "dir", "other"}, data \in Contents :
        /\ CanEdit(maxLate)
        /\ NEntries(fs) < maxE
        /\ Free(fs, p)
        /\ kind # "file" => data = <<>>
        /\ Edited(WithEntry(fs, p, kind, TRUE, data))

\* A FIFO: neither a file nor a directory.
Mkfifo(maxE, maxLate) ==
    \E p \in Paths :
        /\ CanEdit(maxLate)
        /\ NEntries(fs) < maxE
        /\ Free(fs, p)
        /\ Edited(WithEntry(fs, p, "other", FALSE, <<>>))

Remove(maxLate) ==
    \E p \in Paths \ RootPaths :
        /\ CanEdit(maxLate)
        /\ fs[p].kind # "none"
        /\ Edited(Without(fs, p))

(* ----------------------------- the program ---------------------------- *)
\* chunksize=1000000, the default: more than any file of the model holds.
DefaultChunk == MaxLen + 1

Dirs(F) == {p \in Paths : F[p].kind = "dir"}

CallRecord(mode, d, rs, cacheIn, r) ==
    [called |-> TRUE, mode |-> mode, d |-> d, rs |-> rs, ok |-> r.ok,
     h |-> r.h, cacheIn |-> cacheIn, cache |-> r.cache, log |-> r.log,
     again |-> /\ last.called /\ last.ok /\ last.d = d /\ last.rs = rs
               /\ last.cache = cacheIn,
     prevh |-> last.h]

\* main(args) in a process of its own: hash_dir without a cache argument,
\* the first call of the process.
Main ==
    \E d \in Dirs(fs), cs \in ChunkSizes, rs \in BOOLEAN, o \in Orders :
        LET r == hash_dir(fs, d, cs, rs, o, EmptyCache)
        IN /\ calls = 0
           /\ calls' = 1
           /\ last' = CallRecord("main", d, rs, EmptyCache, r)
           /\ UNCHANGED <<fs, defaults, ucache, edits, cachefile, dupes>>

\* hash_dir(d, ...) without a cache argument, in the long-lived process:
\* the cache is the function's default value, one dict for every call.
HashDirDefault ==
    \E d \in Dirs(fs), o \in Orders :
        LET rs == TRUE
            r == hash_dir(fs, d, DefaultChunk, rs, o, defaults)
        IN /\ calls < MaxCalls
           /\ calls' = calls + 1
           /\ defaults' = r.cache
           /\ last' = CallRecord("default", d, rs, defaults, r)
           /\ UNCHANGED <<fs, ucache, edits, cachefile, dupes>>

\* hash_dir(d, ..., cache=c) with the caller's dict c.
HashDirWith ==
    \E d \in Dirs(fs), o \in Orders :
        LET rs == TRUE
            r == hash_dir(fs, d, DefaultChunk, rs, o, ucache)
        IN /\ calls < MaxCalls
           /\ calls' = calls + 1
           /\ ucache' = r.cache
           /\ last' = CallRecord("with", d, rs, ucache, r)
           /\ UNCHANGED <<fs, defaults, edits, cachefile, dupes>>

\* cli() with --write-cache and no other option, a process of its own:
\* main, then the dump.
\* An error in main ends the process before anything is written.
Cli ==
    \E d \in Dirs(fs), o \in Orders :
        LET rs == TRUE
            r == hash_dir(fs, d, DefaultChunk, rs, o, EmptyCache)
        IN /\ calls < MaxCalls
           /\ calls' = calls + 1
           /\ last' = CallRecord("main", d, rs, EmptyCache, r)
           /\ cachefile' = IF r.ok
                            THEN [exists |-> TRUE, table |-> Dump(r.cache)]
                            ELSE cachefile
           /\ UNCHANGED <<fs, defaults, ucache, edits, dupes>>

\* getdupes() on the cache file.
GetDupes ==
    /\ cachefile.exists
    /\ dupes' = [done |-> TRUE, table |-> cachefile.table,
                 dupes |-> getdupes(cachefile.table)]
    /\ UNCHANGED <<fs, defaults, ucache, last, calls, edits, cachefile>>

(* --------------------------- specifications --------------------------- *)
\* A tree is built freely, then fingerprinted once by a process of its own.
Next ==
    \/ Creat(MaxEntries, 0)
    \/ WriteFile(0)
    \/ Mkdir(MaxEntries, 0)
    \/ Symlink(MaxEntries, 0)
    \/ Mkfifo(MaxEntries, 0)
    \/ Remove(0)
    \/ Main

Spec == Init /\ [][Next]_vars

\* One long-lived process and the command line tools, over a small tree:
\* calls that share caches, with the tree changing between them.
SeqNext ==
    \/ Creat(MaxSeqEntries, MaxEdits)
    \/ WriteFile(MaxEdits)
    \/ Mkdir(MaxSeqEntries, MaxEdits)
    \/ Remove(MaxEdits)
    \/ HashDirDefault
    \/ HashDirWith
    \/ Cli
    \/ GetDupes

SeqSpec == SeqInit /\ [][SeqNext]_vars

(* ------------------- what the properties speak about ------------------ *)
\* x is an entry the traversal takes into account.
Present(F, x, rs) ==
    /\ x \in Paths
    /\ F[x].kind # "none"
    /\ ~(F[x].sym /\ ~rs)

\* d and the entries a complete traversal of d meets: every entry on the
\* way down from d is taken into account and, above the last, a directory.
Reach(F, d, rs) ==
    {p \in Paths :
        /\ Under(d, p)
        /\ \A k \in (Len(d) + 1)..Len(p) :
              /\ Present(F, SubSeq(p, 1, k), rs)
              /\ k < Len(p) => F[SubSeq(p, 1, k)].kind = "dir"}

ReachFiles(F, d, rs) == {p \in Reach(F, d, rs) \ {d} : F[p].kind = "file"}

ReachDirs(F, d, rs) ==
    {d} \cup {p \in Reach(F, d, rs) \ {d} : F[p].kind = "dir"}

AnyOrder == CHOOSE o \in Orders : TRUE

\* The fingerprint of d computed on its own, from an empty cache.
Fresh(F, d, rs) == hash_dir(F, d, 1, rs, AnyOrder, EmptyCache)

\* The hash object of a file computed on its own: it was fed the content.
FileHash(F, x) == F[x].data

ChildHash(F, x, rs) ==
    IF F[x].kind = "file" THEN FileHash(F, x) ELSE Fresh(F, x, rs).h

HexLeq(a, b) == ~StrLess(hexdigest(b), hexdigest(a))

Ascending(hs) == \A i, j \in 1..Len(hs) : i < j => HexLeq(hs[i], hs[j])

\* The hash objects of the entries in the set X, ascending by hexdigest.
AscendingOf(F, X, rs) ==
    LET n == Cardinality(X)
        enum == CHOOSE e \in [1..n -> X] :
                    /\ \A x \in X : \E i \in 1..n : e[i] = x
                    /\ Ascending([i \in 1..n |-> ChildHash(F, e[i], rs)])
    IN [i \in 1..n |-> ChildHash(F, enum[i], rs)]

ChildFiles(F, d, rs) ==
    {x \in {Append(d, n) : n \in Names} :
        Present(F, x, rs) /\ F[x].kind = "file"}

ChildDirs(F, d, rs) ==
    {x \in {Append(d, n) : n \in Names} :
        Present(F, x, rs) /\ F[x].kind = "dir"}

ChildOthers(F, d, rs) ==
    {x \in {Append(d, n) : n \in Names} :
        Present(F, x, rs) /\ F[x].kind = "other"}

\* The hash object that was fed the digests hs, one after the other.
FedWith(hs) == [i \in 1..Len(hs) |-> digest(hs[i])[1]]

(* ------------------------------- C1 ----------------------------------- *)
Renamings == {f \in [Names -> Names] : \A m, n \in Names : m # n => f[m] # f[n]}

\* Same nesting and, in every directory, the same file contents: the
\* entries of p and q correspond one to one, file to file of equal content,
\* directory to directory of the same kind of tree.
RECURSIVE SameTree(_, _, _, _)
SameTree(F, p, q, rs) ==
    \E f \in Renamings : \A n \in Names :
        LET x == Append(p, n)
            y == Append(q, f[n])
        IN \/ ~Present(F, x, rs) /\ ~Present(F, y, rs)
           \/ /\ Present(F, x, rs) /\ Present(F, y, rs)
              /\ \/ /\ F[x].kind = "file" /\ F[y].kind = "file"
                    /\ F[x].data = F[y].data
                 \/ /\ F[x].kind = "dir" /\ F[y].kind = "dir"
                    /\ SameTree(F, x, y, rs)

\* C1: two trees of the same nesting and the same file contents in every
\* directory get the same digest from hash_dir, whatever the entries are
\* called and in whatever order scandir lists them (empty cache).
C1_RenamingInvariance ==
    (last.called /\ last.mode = "main" /\ last.ok) =>
        \A q \in Dirs(fs), o \in Orders, cs \in ChunkSizes :
            SameTree(fs, last.d, q, last.rs) =>
                LET r == hash_dir(fs, q, cs, last.rs, o, EmptyCache)
                IN r.ok /\ r.h = last.h

\* A fingerprinted tree with a file, and another tree that matches it
\* under other names.
C1_Witness ==
    /\ last.called /\ last.mode = "main" /\ last.ok
    /\ \E q \in Dirs(fs) \ {last.d} :
          /\ SameTree(fs, last.d, q, last.rs)
          /\ \E n \in Names :
                /\ Append(last.d, n) \in ChildFiles(fs, last.d, last.rs)
                /\ ~Present(fs, Append(q, n), last.rs)

(* ------------------------------- C2 ----------------------------------- *)
\* The digest of the tree G at the directory of the last call is another
\* than the last call's.
DigestDiffers(G) ==
    \A o \in Orders, cs \in ChunkSizes :
        LET r == hash_dir(G, last.d, cs, last.rs, o, EmptyCache)
        IN r.ok /\ r.h # last.h

\* The places below d where a file can be added.
Addable(F, d, rs) ==
    {x \in Paths : Free(F, x) /\ Parent(x) \in ReachDirs(F, d, rs)}

\* C2: changing the content of one file of a tree, or adding or removing
\* one file, at any depth, changes the digest hash_dir returns (the hash
\* being collision-free, every cache empty).
C2_ContentSensitivity ==
    (last.called /\ last.mode = "main" /\ last.ok) =>
        /\ \A p \in ReachFiles(fs, last.d, last.rs) :
              \A data \in Contents \ {fs[p].data} :
                  DigestDiffers(WithEntry(fs, p, "file", fs[p].sym, data))
        /\ \A p \in Addable(fs, last.d, last.rs) :
              \A data \in Contents :
                  DigestDiffers(WithEntry(fs, p, "file", FALSE, data))
        /\ \A p \in ReachFiles(fs, last.d, last.rs) :
              DigestDiffers(Without(fs, p))

\* A fingerprinted tree with a file two levels down.
C2_Witness ==
    /\ last.called /\ last.mode = "main" /\ last.ok
    /\ \E p \in ReachFiles(fs, last.d, last.rs) : Len(p) = Len(last.d) + 2

(* ------------------------------- C3 ----------------------------------- *)
\* C3 as the specification states it: the digest of a directory is the
\* hash of all its child digests, files and subdirectories as one
\* collection sorted ascending by hexdigest, so that two directories with
\* the same multiset of child digests get the same digest, whichever of
\* the children are files and whichever are subdirectories.
C3_OneSortedCollection ==
    (last.called /\ last.mode = "main" /\ last.ok) =>
        LET all(p) == ChildFiles(fs, p, last.rs) \cup ChildDirs(fs, p, last.rs)
        IN /\ last.h = FedWith(AscendingOf(fs, all(last.d), last.rs))
           /\ \A q \in Dirs(fs) :
                 (/\ Fresh(fs, q, last.rs).ok
                  /\ AscendingOf(fs, all(q), last.rs)
                        = AscendingOf(fs, all(last.d), last.rs))
                 => Fresh(fs, q, last.rs).h = last.h

\* C3, amended: the digest of a directory is the hash of its file digests
\* sorted ascending by hexdigest followed by its subdirectory digests
\* sorted ascending by hexdigest; two directories get the same digest when
\* their files have the same multiset of digests and their subdirectories
\* have the same multiset of digests.
C3_FilesThenSubdirs ==
    (last.called /\ last.mode = "main" /\ last.ok) =>
        LET fd(p) == AscendingOf(fs, ChildFiles(fs, p, last.rs), last.rs)
            sd(p) == AscendingOf(fs, ChildDirs(fs, p, last.rs), last.rs)
        IN /\ last.h = FedWith(fd(last.d) \o sd(last.d))
           /\ \A q \in Dirs(fs) :
                 (/\ Fresh(fs, q, last.rs).ok
                  /\ fd(q) = fd(last.d)
                  /\ sd(q) = sd(last.d))
                 => Fresh(fs, q, last.rs).h = last.h

\* A fingerprinted directory with a file and a subdirectory, the
\* subdirectory's hexdigest the smaller of the two.
C3_Witness ==
    /\ last.called /\ last.mode = "main" /\ last.ok
    /\ \E x \in ChildFiles(fs, last.d, last.rs),
          y \in ChildDirs(fs, last.d, last.rs) :
          StrLess(hexdigest(ChildHash(fs, y, last.rs)),
                  hexdigest(ChildHash(fs, x, last.rs)))

(* ------------------------------- C6 ----------------------------------- *)
\* An entry that is neither a file nor a directory lies in d or in a
\* directory the traversal of d goes down into.
HasUnsupported(F, d, rs) ==
    \E p \in Reach(F, d, rs) \ {d} : F[p].kind = "other"

\* C6: from an empty cache, an entry that is neither a regular file nor a
\* directory (a dangling symlink counts only when symlinks are resolved),
\* in the root or in any nested directory, makes the whole hash_dir call
\* fail with NotImplementedError: no digest is returned.
C6_UnsupportedIsFatal ==
    (last.called /\ last.mode = "main") =>
        (HasUnsupported(fs, last.d, last.rs) => ~last.ok)

\* A failed call whose unsupported entry lies in a nested directory.
C6_Witness ==
    /\ last.called /\ last.mode = "main" /\ ~last.ok
    /\ ChildOthers(fs, last.d, last.rs) = {}
    /\ \E p \in Reach(fs, last.d, last.rs) :
          fs[p].kind = "other" /\ Len(p) = Len(last.d) + 2

(* ------------------------------- C7 ----------------------------------- *)
\* F with every symlink entry below d removed.
WithoutSymlinks(F, d) ==
    [p \in Paths |->
        IF \E k \in (Len(d) + 1)..Len(p) : Under(d, p) /\ F[SubSeq(p, 1, k)].sym
        THEN Absent ELSE F[p]]

\* C7: with resolve_symlinks false, hash_dir of a directory is hash_dir
\* of the directory with its symlink entries removed; a directory with no
\* entries, or with none but excluded symlinks, succeeds with the digest
\* of zero-length input.
C7_SymlinksExcluded ==
    last.called =>
        /\ ~last.rs =>
              \A o \in Orders, cs \in ChunkSizes :
                  LET r == hash_dir(WithoutSymlinks(fs, last.d), last.d, cs,
                                    FALSE, o, last.cacheIn)
                  IN r.ok = last.ok /\ (last.ok => r.h = last.h)
        /\ (\A n \in Names : ~Present(fs, Append(last.d, n), last.rs)) =>
              last.ok /\ digest(last.h) = digest(checksum(<<>>, 1))

\* A call with resolve_symlinks false on a directory that holds a symlink
\* to a file beside a regular file.
C7_Witness ==
    /\ last.called /\ ~last.rs /\ last.ok
    /\ ChildFiles(fs, last.d, FALSE) # {}
    /\ \E n \in Names : LET x == Append(last.d, n)
                         IN x \in Paths /\ fs[x].kind = "file" /\ fs[x].sym

(* ------------------------------- C9 ----------------------------------- *)
\* C9: after a successful hash_dir(D) from an empty cache, the keys of the
\* cache are exactly D and the paths of the files and directories the
\* traversal included under D, each with the digest computed for it, and
\* the entry for D is the digest returned.
C9_CacheComplete ==
    (last.called /\ last.ok /\ last.cacheIn = EmptyCache) =>
        /\ Keys(last.cache) = Reach(fs, last.d, last.rs)
        /\ Len(last.cache) = Cardinality(Keys(last.cache))
        /\ \A p \in Keys(last.cache) \ {last.d} :
              Get(last.cache, p) = ChildHash(fs, p, last.rs)
        /\ InCache(last.cache, last.d)
        /\ Get(last.cache, last.d) = last.h

\* A successful call that excluded a symlink and went into a directory
\* with a file.
C9_Witness ==
    /\ last.called /\ last.ok /\ last.cacheIn = EmptyCache /\ ~last.rs
    /\ \E n \in Names : LET x == Append(last.d, n)
                         IN x \in Paths /\ fs[x].sym
    /\ \E p \in ReachFiles(fs, last.d, last.rs) : Len(p) = Len(last.d) + 2

(* ------------------------------- C4 ----------------------------------- *)
\* C4: hash_dir called again on the same, unchanged directory with the
\* cache the first call returned gives the first call's digest and reads
\* no file: checksum is not invoked.
C4_CacheIdempotence ==
    last.again =>
        /\ last.ok
        /\ last.h = last.prevh
        /\ \A i \in 1..Len(last.log) : last.log[i].op # "checksum"

\* A second call, on a tree with a file, with the cache of the first.
C4_Witness ==
    /\ last.again
    /\ ReachFiles(fs, last.d, last.rs) # {}

(* ------------------------------- C5 ----------------------------------- *)
\* C5: a hash_dir call that is given no cache starts with an empty cache:
\* it reuses no digest an earlier call stored, and its digest is that of
\* the file contents present at the time of the call.
C5_NoCacheStartsEmpty ==
    (last.called /\ last.mode = "default") =>
        /\ last.cacheIn = EmptyCache
        /\ last.ok => last.h = Fresh(fs, last.d, last.rs).h

\* The part of C5 a caller observes: the digest is that of the files as
\* they are at the time of the call.
C5_DigestIsCurrent ==
    (last.called /\ last.mode = "default" /\ last.ok) =>
        last.h = Fresh(fs, last.d, last.rs).h

(* ------------------------------- C8 ----------------------------------- *)
\* The paths of the table that carry the digest hx, in the table's order.
Carriers(table, hx) ==
    LET idx == {j \in 1..Len(table) : table[j].v = hx}
        nth(a) == CHOOSE j \in idx : Cardinality({m \in idx : m <= j}) = a
    IN [a \in 1..Cardinality(idx) |-> table[nth(a)].k]

\* C8: the duplicate finder returns exactly the digests that two or more
\* paths of the table share, each with all and only the paths that carry
\* it, each path once, in the table's order.
C8_DuplicateGrouping ==
    dupes.done =>
        LET t == dupes.table
            D == dupes.dupes
        IN /\ {D[i].k : i \in 1..Len(D)}
                = {hx \in {t[j].v : j \in 1..Len(t)} :
                      \E i, j \in 1..Len(t) : i # j /\ t[i].v = hx /\ t[j].v = hx}
           /\ \A i, j \in 1..Len(D) : i # j => D[i].k # D[j].k
           /\ \A i \in 1..Len(D) : D[i].v = Carriers(t, D[i].k)

\* A table with a digest two paths share and a digest only one carries.
C8_Witness ==
    /\ dupes.done
    /\ Len(dupes.dupes) > 0
    /\ \E j \in 1..Len(dupes.table) :
          \A i \in 1..Len(dupes.dupes) : dupes.dupes[i].k # dupes.table[j].v

(* ------------------------------- C10 ---------------------------------- *)
\* The cache as it is before the i-th event of the call.
RECURSIVE CacheBefore(_, _, _)
CacheBefore(cache, log, i) ==
    IF i <= 1 THEN cache
    ELSE LET c == CacheBefore(cache, log, i - 1)
             e == log[i - 1]
         IN IF e.op = "store" THEN Put(c, e.path, e.h) ELSE c

\* C10: during one top-level hash_dir call, no path that is a key of the
\* cache, from before the call or from earlier in it, has its digest
\* computed again, and the digest stored under it never changes.  Stated
\* of the calls that are handed their cache.
C10_WriteOnce ==
    (last.called /\ last.mode = "with") =>
        \A i \in 1..Len(last.log) :
            LET c == CacheBefore(last.cacheIn, last.log, i)
                e == last.log[i]
            IN InCache(c, e.path) =>
                  /\ e.op \notin {"checksum", "hash"}
                  /\ Get(c, e.path) = e.h

\* The second half of C10 alone: a stored digest never changes.
C10_StoredNeverChanges ==
    (last.called /\ last.mode = "with") =>
        \A i \in 1..Len(last.log) :
            LET c == CacheBefore(last.cacheIn, last.log, i)
                e == last.log[i]
            IN (e.op = "store" /\ InCache(c, e.path)) => Get(c, e.path) = e.h

====
